---------------------------- MODULE Spec2Model ----------------------------
(***************************************************************************)
(* Model of sox/transform.py: the Transformer effect-chain builder.        *)
(*                                                                         *)
(* Python values are records [t, v, s, items]: t is the type tag, v the    *)
(* integer payload (an int's value, a float's value in TENTHS: the floats  *)
(* of the model are those with one decimal digit, whose repr is that       *)
(* digit string; a bool's 0/1), s a str's text, items the elements of a    *)
(* tuple or a list.                                                        *)
(***************************************************************************)
EXTENDS Integers, Sequences, FiniteSets, TLC

VARIABLES
    input_filepath,   \* self.input_filepath
    output_filepath,  \* self.output_filepath
    input_format,     \* self.input_format
    output_format,    \* self.output_format
    effects,          \* self.effects
    effects_log,      \* self.effects_log
    globals,          \* self.globals
    raised,           \* exception the caller observed from the last call ("none")
    sox_calls,        \* argument lists the last call handed to core.sox
    log_out,          \* messages the last call handed to logging
    call,             \* the last call: [op, args]
    pre,              \* the builder's fields when the last call started
    trace,            \* one entry per effect method call made so far
    globals_call      \* arguments of the most recent set_globals that returned

fields == <<input_filepath, output_filepath, input_format, output_format,
            effects, effects_log, globals>>
vars == <<input_filepath, output_filepath, input_format, output_format,
          effects, effects_log, globals, raised, sox_calls, log_out, call,
          pre, trace, globals_call>>

-----------------------------------------------------------------------------
(* Bounds of the model.                                                    *)

\* effect method calls per builder
MaxCalls == 2
\* points in a tf_points list drawn exhaustively
MaxPts == 3

-----------------------------------------------------------------------------
(* Python values.                                                          *)

PyInt(n)   == [t |-> "int",   v |-> n, s |-> "", items |-> <<>>]
PyFloat(h)   == [t |-> "float", v |-> h, s |-> "", items |-> <<>>]
PyBool(b)  == [t |-> "bool",  v |-> IF b THEN 1 ELSE 0, s |-> "", items |-> <<>>]
PyStr(x)   == [t |-> "str",   v |-> 0, s |-> x, items |-> <<>>]
PyNone     == [t |-> "none",  v |-> 0, s |-> "", items |-> <<>>]
PyTuple(q) == [t |-> "tuple", v |-> 0, s |-> "", items |-> q]
PyList(q)  == [t |-> "list",  v |-> 0, s |-> "", items |-> q]

\* the value of a number, in tenths
Tenths(x) == IF x.t = "float" THEN x.v ELSE 10 * x.v

IsNumeric(x) == x.t \in {"int", "float", "bool"}

\* Python's ==
PyEq(x, y) ==
    IF IsNumeric(x) /\ IsNumeric(y) THEN Tenths(x) = Tenths(y)
    ELSE x = y

\* x in [y1, y2, ...]
PyIn(x, ys) == \E y \in ys : PyEq(x, y)

\* truth value of a bool, or of any value tested by `if x:`
Truthy(x) ==
    CASE x.t \in {"int", "float", "bool"} -> x.v # 0
      [] x.t = "str" -> x.s # ""
      [] x.t = "none" -> FALSE
      [] OTHER -> x.items # <<>>

\* isinstance(x, bool)
IsBool(x) == x.t = "bool"
\* isinstance(x, int): bool is a subclass of int
IsInt(x) == x.t \in {"int", "bool"}

\* core.is_number
is_number(x) == x.t \in {"int", "float"}

Digit(d) ==
    CASE d = 0 -> "0" [] d = 1 -> "1" [] d = 2 -> "2" [] d = 3 -> "3"
      [] d = 4 -> "4" [] d = 5 -> "5" [] d = 6 -> "6" [] d = 7 -> "7"
      [] d = 8 -> "8" [] d = 9 -> "9"

RECURSIVE NatStr(_)
NatStr(n) == IF n < 10 THEN Digit(n) ELSE NatStr(n \div 10) \o Digit(n % 10)

\* str(int)
IntStr(n) == IF n < 0 THEN "-" \o NatStr(-n) ELSE NatStr(n)

\* repr(float) of h/10
FloatStr(h) ==
    LET a == IF h < 0 THEN -h ELSE h
    IN  (IF h < 0 THEN "-" ELSE "") \o NatStr(a \div 10) \o "."
        \o Digit(a % 10)

\* "{}".format(x), str(x)
Format(x) ==
    CASE x.t = "int"   -> IntStr(x.v)
      [] x.t = "float" -> FloatStr(x.v)
      [] x.t = "bool"  -> IF x.v = 1 THEN "True" ELSE "False"
      [] x.t = "none"  -> "None"
      [] x.t = "str"   -> x.s

\* x - y of two numbers: int - int is an int, anything else a float.  The
\* float difference is the exact one when both operands are multiples of
\* 0.5 (exact in binary); trim's inputs are drawn from those.
Minus(x, y) ==
    IF x.t = "float" \/ y.t = "float" THEN PyFloat(Tenths(x) - Tenths(y))
    ELSE PyInt(x.v - y.v)

\* sep.join(q)
RECURSIVE Join(_, _)
Join(sep, q) ==
    IF q = <<>> THEN ""
    ELSE IF Len(q) = 1 THEN q[1]
    ELSE q[1] \o sep \o Join(sep, Tail(q))

IsPrefix(p, q) == Len(p) <= Len(q) /\ SubSeq(q, 1, Len(p)) = p
Suffix(q, n) == SubSeq(q, n + 1, Len(q))

-----------------------------------------------------------------------------
(* The builder.  A method is an operator from self (the record of fields)  *)
(* and its arguments to [self, raised, log, sox]: the fields afterwards,   *)
(* the exception raised ("none"), the logging calls and the engine calls.  *)

Self == [input_filepath |-> input_filepath, output_filepath |-> output_filepath,
         input_format |-> input_format, output_format |-> output_format,
         effects |-> effects, effects_log |-> effects_log, globals |-> globals]

Return(self) == [self |-> self, raised |-> "none", log |-> <<>>, sox |-> <<>>]
Raise(self, exc) == [self |-> self, raised |-> exc, log |-> <<>>, sox |-> <<>>]

VERBOSITY_VALS == {PyInt(0), PyInt(1), PyInt(2), PyInt(3), PyInt(4)}

\* mutant: -G is appended after --multi-threaded
global_args_guard_late(dither, guard, multithread, replay_gain, verbosity) ==
    (IF ~Truthy(dither) THEN <<"-D">> ELSE <<>>)
    \o (IF Truthy(multithread) THEN <<"--multi-threaded">> ELSE <<>>)
    \o (IF Truthy(guard) THEN <<"-G">> ELSE <<>>)
    \o (IF Truthy(replay_gain) THEN <<"--replay-gain", "track">> ELSE <<>>)
    \o <<"-V" \o Format(verbosity)>>

\* lines 127-142: the global argument list
global_args(dither, guard, multithread, replay_gain, verbosity) ==
    (IF ~Truthy(dither) THEN <<"-D">> ELSE <<>>)
    \o (IF Truthy(guard) THEN <<"-G">> ELSE <<>>)
    \o (IF Truthy(multithread) THEN <<"--multi-threaded">> ELSE <<>>)
    \o (IF Truthy(replay_gain) THEN <<"--replay-gain", "track">> ELSE <<>>)
    \o <<"-V" \o Format(verbosity)>>

\* mutant: the new arguments are appended to the old ones
set_globals_appends(self, dither, guard, multithread, replay_gain, verbosity) ==
    IF ~IsBool(dither) THEN Raise(self, "ValueError")
    ELSE IF ~IsBool(guard) THEN Raise(self, "ValueError")
    ELSE IF ~IsBool(multithread) THEN Raise(self, "ValueError")
    ELSE IF ~IsBool(replay_gain) THEN Raise(self, "ValueError")
    ELSE IF ~PyIn(verbosity, VERBOSITY_VALS) THEN Raise(self, "ValueError")
    ELSE Return([self EXCEPT !.globals = @ \o
            global_args(dither, guard, multithread, replay_gain, verbosity)])

set_globals(self, dither, guard, multithread, replay_gain, verbosity) ==
    IF ~IsBool(dither) THEN Raise(self, "ValueError")
    ELSE IF ~IsBool(guard) THEN Raise(self, "ValueError")
    ELSE IF ~IsBool(multithread) THEN Raise(self, "ValueError")
    ELSE IF ~IsBool(replay_gain) THEN Raise(self, "ValueError")
    ELSE IF ~PyIn(verbosity, VERBOSITY_VALS) THEN Raise(self, "ValueError")
    ELSE Return([self EXCEPT !.globals =
            global_args(dither, guard, multithread, replay_gain, verbosity)])

\* mutant: the effects are put before the output file
build_args_effects_first(self) ==
    self.globals \o self.input_format \o <<self.input_filepath>>
    \o self.effects \o self.output_format \o <<self.output_filepath>>

\* the argument list build hands to the engine
build_args(self) ==
    self.globals \o self.input_format \o <<self.input_filepath>>
    \o self.output_format \o <<self.output_filepath>> \o self.effects

\* mutant: a failed invocation is tried once more before raising
build_retries(self, status) ==
    LET args == build_args(self)
    IN  IF status = FALSE
        THEN [self |-> self, raised |-> "SoxError", log |-> <<>>,
              sox |-> <<args, args>>]
        ELSE [self |-> self, raised |-> "none",
              log |-> << <<"info", self.output_filepath,
                           Join(" ", self.effects_log)>> >>,
              sox |-> <<args>>]

\* status is what core.sox returned
\* mutant: build starts a fresh effect chain once the engine was called
build_clears_effects(self, status) ==
    LET args == build_args(self)
        self1 == [self EXCEPT !.effects = <<>>, !.effects_log = <<>>]
    IN  IF status = FALSE
        THEN [self |-> self1, raised |-> "SoxError", log |-> <<>>, sox |-> <<args>>]
        ELSE [self |-> self1, raised |-> "none",
              log |-> << <<"info", self.output_filepath,
                           Join(" ", self.effects_log)>> >>,
              sox |-> <<args>>]

build(self, status) ==
    LET args == build_args(self)
    IN  IF status = FALSE
        THEN [self |-> self, raised |-> "SoxError", log |-> <<>>, sox |-> <<args>>]
        ELSE [self |-> self, raised |-> "none",
              log |-> << <<"info", self.output_filepath,
                           Join(" ", self.effects_log)>> >>,
              sox |-> <<args>>]

\* mutant: the new tokens are put in front of the old ones
Extend_prepends(self, effect_args, name) ==
    [self EXCEPT !.effects = effect_args \o @,
                 !.effects_log = Append(@, name)]

\* self.effects.extend(effect_args); self.effects_log.append(name)
Extend(self, effect_args, name) ==
    [self EXCEPT !.effects = @ \o effect_args,
                 !.effects_log = Append(@, name)]

\* a result with the logging calls made before it put in front
Logged(msgs, res) == [res EXCEPT !.log = msgs \o @]

\* mutant: the points are left in the order given
SortedByFirst_unsorted(q) == q

\* sorted(q, key=lambda p: p[0]): stable, ascending
RECURSIVE SortedByFirst(_)
SortedByFirst(q) ==
    IF q = <<>> THEN <<>>
    ELSE LET n == Len(q)
             init == SortedByFirst(SubSeq(q, 1, n - 1))
             x == q[n]
             k == Cardinality({i \in 1..(n - 1) :
                      Tenths(init[i].items[1]) <= Tenths(x.items[1])})
         IN  SubSeq(init, 1, k) \o <<x>> \o SubSeq(init, k + 1, n - 1)

\* lines 255-259: the flattened "x", "y", ... list
RECURSIVE transfer_list(_)
transfer_list(q) ==
    IF q = <<>> THEN <<>>
    ELSE <<Format(q[1].items[1]), Format(q[1].items[2])>>
         \o transfer_list(Tail(q))

\* lines 251-271: the tokens of a validated compand call
compand_args(attack_time, decay_time, soft_knee_db, tf_points) ==
    LET sorted == SortedByFirst(tf_points.items)
        joined == Join(",", transfer_list(sorted))
    IN  <<"compand", Format(attack_time) \o "," \o Format(decay_time)>>
        \o (IF soft_knee_db # PyNone
            THEN <<Format(soft_knee_db) \o ":" \o joined>>
            ELSE <<joined>>)

compand(self, attack_time, decay_time, soft_knee_db, tf_points) ==
    IF ~is_number(attack_time) \/ Tenths(attack_time) <= 0
    THEN Raise(self, "ValueError")
    ELSE IF ~is_number(decay_time) \/ Tenths(decay_time) <= 0
    THEN Raise(self, "ValueError")
    ELSE Logged(
        IF Tenths(attack_time) > Tenths(decay_time)
        THEN << <<"warning", "attack_time is larger than decay_time.">> >>
        ELSE <<>>,
        LET pts == tf_points.items
            P == {pts[i] : i \in 1..Len(pts)}
        IN  IF ~(is_number(soft_knee_db) \/ soft_knee_db = PyNone)
            THEN Raise(self, "ValueError")
            ELSE IF tf_points.t # "list" THEN Raise(self, "TypeError")
            ELSE IF Len(pts) = 0 THEN Raise(self, "ValueError")
            ELSE IF \E p \in P : p.t # "tuple" THEN Raise(self, "ValueError")
            ELSE IF \E p \in P : Len(p.items) # 2 THEN Raise(self, "ValueError")
            ELSE IF \E p \in P : ~(is_number(p.items[1]) /\ is_number(p.items[2]))
            THEN Raise(self, "ValueError")
            ELSE IF \E p \in P : Tenths(p.items[1]) > 0 \/ Tenths(p.items[2]) > 0
            THEN Raise(self, "ValueError")
            ELSE IF Len(pts) > Cardinality({Tenths(p.items[1]) : p \in P})
            THEN Raise(self, "ValueError")
            ELSE Return(Extend(self,
                    compand_args(attack_time, decay_time, soft_knee_db, tf_points),
                    "compand")))

\* rate's default for quality
rate_default_quality == PyStr("h")

quality_vals == {PyStr("q"), PyStr("l"), PyStr("m"), PyStr("h"), PyStr("v")}

rate(self, samplerate, quality) ==
    IF ~is_number(samplerate) \/ Tenths(samplerate) <= 0
    THEN Raise(self, "ValueError")
    ELSE IF ~PyIn(quality, quality_vals) THEN Raise(self, "ValueError")
    ELSE Return(Extend(self,
            <<"rate", "-" \o Format(quality), Format(samplerate)>>, "rate"))

bitdepths == {PyInt(8), PyInt(16), PyInt(24), PyInt(32), PyInt(64)}

\* mutant: samplerate is checked but rate is never called
convert_skips_rate(self, samplerate, channels, bitdepth) ==
    LET bad1 == bitdepth # PyNone /\ ~PyIn(bitdepth, bitdepths)
        self1 == IF bitdepth # PyNone
                 THEN [self EXCEPT !.output_format = @ \o <<"-b", Format(bitdepth)>>]
                 ELSE self
        bad2 == channels # PyNone /\ (~IsInt(channels) \/ Tenths(channels) <= 0)
        self2 == IF channels # PyNone
                 THEN [self1 EXCEPT !.output_format = @ \o <<"-c", Format(channels)>>]
                 ELSE self1
        bad3 == samplerate # PyNone
                /\ (~is_number(samplerate) \/ Tenths(samplerate) <= 0)
    IN  IF bad1 THEN Raise(self, "ValueError")
        ELSE IF bad2 THEN Raise(self1, "ValueError")
        ELSE IF bad3 THEN Raise(self2, "ValueError")
        ELSE Return(self2)

\* output_format is extended as each argument passes its check, before the
\* next argument is checked
convert(self, samplerate, channels, bitdepth) ==
    LET bad1 == bitdepth # PyNone /\ ~PyIn(bitdepth, bitdepths)
        self1 == IF bitdepth # PyNone
                 THEN [self EXCEPT !.output_format = @ \o <<"-b", Format(bitdepth)>>]
                 ELSE self
        bad2 == channels # PyNone /\ (~IsInt(channels) \/ Tenths(channels) <= 0)
        self2 == IF channels # PyNone
                 THEN [self1 EXCEPT !.output_format = @ \o <<"-c", Format(channels)>>]
                 ELSE self1
        bad3 == samplerate # PyNone
                /\ (~is_number(samplerate) \/ Tenths(samplerate) <= 0)
    IN  IF bad1 THEN Raise(self, "ValueError")
        ELSE IF bad2 THEN Raise(self1, "ValueError")
        ELSE IF bad3 THEN Raise(self2, "ValueError")
        ELSE IF samplerate # PyNone
        THEN rate(self2, samplerate, rate_default_quality)
        ELSE Return(self2)

fade_shapes == {PyStr("q"), PyStr("h"), PyStr("t"), PyStr("l"), PyStr("p")}

\* mutant: the fade-out tokens come before the fade-in tokens
fade_args_out_first(fade_in_len, fade_out_len, fade_shape) ==
    (IF Tenths(fade_out_len) > 0
     THEN <<"reverse", "fade", Format(fade_shape), Format(fade_out_len),
            "reverse">>
     ELSE <<>>)
    \o (IF Tenths(fade_in_len) > 0
        THEN <<"fade", Format(fade_shape), Format(fade_in_len)>> ELSE <<>>)

\* lines 376-387
fade_args(fade_in_len, fade_out_len, fade_shape) ==
    (IF Tenths(fade_in_len) > 0
     THEN <<"fade", Format(fade_shape), Format(fade_in_len)>> ELSE <<>>)
    \o (IF Tenths(fade_out_len) > 0
        THEN <<"reverse", "fade", Format(fade_shape), Format(fade_out_len),
               "reverse">>
        ELSE <<>>)

\* mutant: the log entry is appended whether or not there are tokens
fade_always_logs(self, fade_in_len, fade_out_len, fade_shape) ==
    IF ~PyIn(fade_shape, fade_shapes) THEN Raise(self, "ValueError")
    ELSE IF ~is_number(fade_in_len) \/ Tenths(fade_in_len) < 0
    THEN Raise(self, "ValueError")
    ELSE IF ~is_number(fade_out_len) \/ Tenths(fade_out_len) < 0
    THEN Raise(self, "ValueError")
    ELSE Return(Extend(self,
            fade_args(fade_in_len, fade_out_len, fade_shape), "fade"))

fade(self, fade_in_len, fade_out_len, fade_shape) ==
    IF ~PyIn(fade_shape, fade_shapes) THEN Raise(self, "ValueError")
    ELSE IF ~is_number(fade_in_len) \/ Tenths(fade_in_len) < 0
    THEN Raise(self, "ValueError")
    ELSE IF ~is_number(fade_out_len) \/ Tenths(fade_out_len) < 0
    THEN Raise(self, "ValueError")
    ELSE LET effect_args == fade_args(fade_in_len, fade_out_len, fade_shape)
         IN  IF Len(effect_args) > 0
             THEN Return(Extend(self, effect_args, "fade"))
             ELSE Return(self)

balance_vals == {PyNone, PyStr("e"), PyStr("B"), PyStr("b")}

gain(self, gain_db, normalize, limiter, balance) ==
    IF ~is_number(gain_db) THEN Raise(self, "ValueError")
    ELSE IF ~IsBool(normalize) THEN Raise(self, "ValueError")
    ELSE IF ~IsBool(limiter) THEN Raise(self, "ValueError")
    ELSE IF ~PyIn(balance, balance_vals) THEN Raise(self, "ValueError")
    ELSE Return(Extend(self,
            <<"gain">>
            \o (IF balance # PyNone THEN <<"-" \o Format(balance)>> ELSE <<>>)
            \o (IF Truthy(normalize) THEN <<"-n">> ELSE <<>>)
            \o (IF Truthy(limiter) THEN <<"-l">> ELSE <<>>)
            \o <<Format(gain_db)>>,
            "gain"))

loudness(self, gain_db, reference_level) ==
    IF ~is_number(gain_db) THEN Raise(self, "ValueError")
    ELSE IF ~is_number(reference_level) THEN Raise(self, "ValueError")
    ELSE IF Tenths(reference_level) > 10 * 75 \/ Tenths(reference_level) < 10 * 50
    THEN Raise(self, "ValueError")
    ELSE Return(Extend(self,
            <<"loudness", Format(gain_db), Format(reference_level)>>,
            "loudness"))

norm(self, db_level) ==
    IF ~is_number(db_level) THEN Raise(self, "ValueError")
    ELSE Return(Extend(self, <<"norm", Format(db_level)>>, "norm"))

pad(self, start_duration, end_duration) ==
    IF ~is_number(start_duration) \/ Tenths(start_duration) < 0
    THEN Raise(self, "ValueError")
    ELSE IF ~is_number(end_duration) \/ Tenths(end_duration) < 0
    THEN Raise(self, "ValueError")
    ELSE Return(Extend(self,
            <<"pad", Format(start_duration), Format(end_duration)>>, "pad"))

location_vals == {PyInt(-1), PyInt(0), PyInt(1)}

\* mutant: the trailing reverse is left out
silence_args_one_reverse(location, silence_threshold, min_silence_duration, buffer) ==
    (IF PyEq(location, PyInt(-1)) THEN <<"reverse">> ELSE <<>>)
    \o (IF Truthy(buffer) THEN <<"silence", "-l">>
        ELSE <<"silence">>)
    \o <<"1", Format(min_silence_duration), Format(silence_threshold) \o "%">>
    \o (IF PyEq(location, PyInt(0))
        THEN <<"-1", Format(min_silence_duration),
               Format(silence_threshold) \o "%">>
        ELSE <<>>)

\* lines 679-703
silence_args(location, silence_threshold, min_silence_duration, buffer) ==
    (IF PyEq(location, PyInt(-1)) THEN <<"reverse">> ELSE <<>>)
    \o (IF Truthy(buffer) THEN <<"silence", "-l">>
        ELSE <<"silence">>)
    \o <<"1", Format(min_silence_duration), Format(silence_threshold) \o "%">>
    \o (IF PyEq(location, PyInt(0))
        THEN <<"-1", Format(min_silence_duration),
               Format(silence_threshold) \o "%">>
        ELSE <<>>)
    \o (IF PyEq(location, PyInt(-1)) THEN <<"reverse">> ELSE <<>>)

silence(self, location, silence_threshold, min_silence_duration, buffer) ==
    IF ~PyIn(location, location_vals) THEN Raise(self, "ValueError")
    ELSE IF ~is_number(silence_threshold) \/ Tenths(silence_threshold) < 0
    THEN Raise(self, "ValueError")
    ELSE IF Tenths(silence_threshold) >= 10 * 100 THEN Raise(self, "ValueError")
    ELSE IF ~is_number(min_silence_duration) \/ Tenths(min_silence_duration) <= 0
    THEN Raise(self, "ValueError")
    ELSE IF ~IsBool(buffer) THEN Raise(self, "ValueError")
    ELSE Return(Extend(self,
            silence_args(location, silence_threshold, min_silence_duration,
                         buffer),
            "silence"))

\* mutant: the third token is the end time
trim_end_time(self, start_time, end_time) ==
    IF ~is_number(start_time) \/ Tenths(start_time) < 0
    THEN Raise(self, "ValueError")
    ELSE IF ~is_number(end_time) \/ Tenths(end_time) < 0
    THEN Raise(self, "ValueError")
    ELSE IF Tenths(start_time) >= Tenths(end_time) THEN Raise(self, "ValueError")
    ELSE Return(Extend(self,
            <<"trim", Format(start_time), Format(end_time)>>, "trim"))

trim(self, start_time, end_time) ==
    IF ~is_number(start_time) \/ Tenths(start_time) < 0
    THEN Raise(self, "ValueError")
    ELSE IF ~is_number(end_time) \/ Tenths(end_time) < 0
    THEN Raise(self, "ValueError")
    ELSE IF Tenths(start_time) >= Tenths(end_time) THEN Raise(self, "ValueError")
    ELSE Return(Extend(self,
            <<"trim", Format(start_time), Format(Minus(end_time, start_time))>>,
            "trim"))

\* allpass, band, ..., vol: every other effect method
unimplemented(self) == Raise(self, "NotImplementedError")

-----------------------------------------------------------------------------
(* Arguments the callers of the model pass.  The *Samples sets are the     *)
(* calls of the full builder (Spec); the *Args sets draw one method's      *)
(* arguments exhaustively from small value sets (SpecGlobals, SpecFade,    *)
(* SpecConvert, SpecCompand).                                              *)

T == PyBool(TRUE)
F == PyBool(FALSE)
Pt(x, y) == PyTuple(<<PyInt(x), PyInt(y)>>)

SetGlobalsDefaults == <<F, F, F, F, PyInt(2)>>
SetGlobalsSamples ==
    { SetGlobalsDefaults,
      <<T, T, T, T, PyInt(0)>>,
      <<F, F, F, F, PyInt(5)>> }
\* every combination of flags, one call with a flag that is no bool, and
\* verbosities in and around VERBOSITY_VALS
FlagVals == {T, F}
VerbosityVals == {PyInt(n) : n \in -1..5} \cup {PyFloat(20), PyFloat(25)}
SetGlobalsArgs ==
    {<<d, g, m, r, v>> : d \in FlagVals, g \in FlagVals, m \in FlagVals,
                         r \in FlagVals, v \in VerbosityVals}
    \cup {<<F, PyInt(1), F, F, v>> : v \in VerbosityVals}

\* every list of at most MaxPts of these points
CompandPts == {Pt(-2, -1), Pt(-1, -1), Pt(-1, 0), Pt(0, 0)}
CompandArgs ==
    {<<PyFloat(3), PyFloat(8), PyFloat(60), PyList(q)>> :
        q \in UNION {[1..n -> CompandPts] : n \in 0..MaxPts}}
    \cup {<<PyFloat(3), PyFloat(8), PyNone, PyList(q)>> :
            q \in {<<Pt(0, 0), Pt(-2, -1)>>, <<Pt(-2, -1), Pt(0, 0)>>}}

ConvertArgs ==
    {<<sr, ch, bd>> :
        sr \in {PyNone, PyInt(8000), PyFloat(441000), PyInt(0)},
        ch \in {PyNone, PyInt(1), PyInt(0), PyFloat(20)},
        bd \in {PyNone, PyInt(16), PyInt(12)}}

FadeArgs ==
    {<<i, o, sh>> :
        i \in {PyFloat(0), PyInt(0), PyFloat(5), PyInt(-1)},
        o \in {PyFloat(0), PyFloat(10), PyInt(2), PyNone},
        sh \in {PyStr("q"), PyStr("h"), PyStr("t"), PyStr("l"), PyStr("p"),
                PyStr("x")}}

SilenceArgs ==
    {<<loc, th, d, b>> :
        loc \in {PyInt(-1), PyInt(0), PyInt(1), PyInt(2)},
        th \in {PyInt(0), PyFloat(1), PyFloat(999), PyInt(100), PyFloat(-1)},
        d \in {PyFloat(1), PyInt(0)},
        b \in {T, F}}

\* times that are multiples of 0.5, ints and floats
TrimTimes ==
    {PyInt(0), PyInt(1), PyInt(3), PyFloat(10), PyFloat(25), PyFloat(-5),
     PyInt(-1)}
TrimArgs == {<<st, en>> : st \in TrimTimes, en \in TrimTimes}

tf_points_default == PyList(<<Pt(-70, -70), Pt(-60, -20), Pt(0, 0)>>)
CompandSamples ==
    { <<PyFloat(3), PyFloat(8), PyFloat(60), tf_points_default>>,
      <<PyInt(1), PyFloat(5), PyNone, PyList(<<Pt(0, 0), Pt(-70, -70)>>)>>,
      <<PyFloat(3), PyFloat(8), PyFloat(60), PyList(<<Pt(-1, -1), Pt(-1, 0)>>)>>,
      <<PyFloat(3), PyFloat(8), PyFloat(60), Pt(-1, -1)>> }

ConvertSamples ==
    { <<PyNone, PyNone, PyNone>>,
      <<PyNone, PyNone, PyInt(16)>>,
      <<PyInt(8000), PyInt(1), PyInt(16)>>,
      <<PyNone, PyNone, PyInt(12)>>,
      <<PyNone, PyInt(0), PyInt(16)>>,
      <<PyInt(0), PyInt(2), PyInt(16)>> }

FadeSamples ==
    { <<PyFloat(0), PyFloat(0), PyStr("q")>>,
      <<PyInt(0), PyFloat(10), PyStr("h")>>,
      <<PyFloat(5), PyFloat(10), PyStr("t")>>,
      <<PyFloat(5), PyFloat(10), PyStr("x")>> }

GainSamples ==
    { <<PyInt(3), T, F, PyNone>>,
      <<PyFloat(-15), F, T, PyStr("e")>>,
      <<PyInt(3), T, F, PyStr("x")>> }

LoudnessSamples ==
    { <<PyFloat(-100), PyFloat(650)>>,
      <<PyInt(0), PyInt(76)>> }

NormSamples == { <<PyFloat(-30)>>, <<PyNone>> }

PadSamples ==
    { <<PyFloat(0), PyFloat(0)>>,
      <<PyInt(-1), PyFloat(0)>> }

RateSamples ==
    { <<PyInt(44100), PyStr("h")>>,
      <<PyFloat(80000), PyStr("v")>>,
      <<PyInt(8000), PyStr("x")>> }

SilenceSamples ==
    { <<PyInt(0), PyFloat(1), PyFloat(1), F>>,
      <<PyInt(-1), PyInt(0), PyFloat(5), T>>,
      <<PyInt(0), PyInt(100), PyFloat(1), F>> }

TrimSamples ==
    { <<PyFloat(10), PyFloat(30)>>,
      <<PyInt(0), PyInt(1)>>,
      <<PyInt(1), PyInt(1)>> }

\* the effect methods that only raise NotImplementedError
Unimplemented ==
    { "allpass", "band", "bandpass", "bandreject", "bass", "bend", "biquad",
      "channels", "chorus", "contrast", "dcshift", "deemph", "delay",
      "dither", "downsample", "earwax", "echo", "echos", "equalizer", "fir",
      "flanger", "highpass", "lowpass", "hilbert", "mcompand", "noisered",
      "oops", "overdrive", "phaser", "pitch", "remix", "repeat", "reverb",
      "reverse", "sinc", "speed", "splice", "swap", "stretch", "tempo",
      "treble", "tremolo", "upsample", "vad", "vol" }

InputPaths == {"in.wav"}
OutputPaths == {"out.wav"}

-----------------------------------------------------------------------------
(* The state machine: one action per method.                               *)

EffectOps == {"compand", "convert", "fade", "gain", "loudness", "norm",
              "pad", "rate", "silence", "trim"}

\* the constructor, lines 66-76: empty lists, then self.set_globals()
Init ==
    /\ input_filepath \in InputPaths
    /\ output_filepath \in OutputPaths
    /\ input_format = <<>>
    /\ output_format = <<>>
    /\ effects = <<>>
    /\ effects_log = <<>>
    /\ globals = set_globals(
            [input_filepath |-> input_filepath,
             output_filepath |-> output_filepath,
             input_format |-> <<>>, output_format |-> <<>>, effects |-> <<>>,
             effects_log |-> <<>>, globals |-> <<>>],
            F, F, F, F, PyInt(2)).self.globals
    /\ raised = "none"
    /\ sox_calls = <<>>
    /\ log_out = <<>>
    /\ call = [op |-> "__init__", args |-> <<>>]
    /\ pre = [input_filepath |-> input_filepath,
              output_filepath |-> output_filepath,
              input_format |-> <<>>, output_format |-> <<>>, effects |-> <<>>,
              effects_log |-> <<>>, globals |-> <<>>]
    /\ trace = <<>>
    /\ globals_call = SetGlobalsDefaults

\* a call of method op with args whose outcome is res
Do(op, args, res) ==
    /\ pre' = Self
    /\ call' = [op |-> op, args |-> args]
    /\ raised' = res.raised
    /\ input_filepath' = res.self.input_filepath
    /\ output_filepath' = res.self.output_filepath
    /\ input_format' = res.self.input_format
    /\ output_format' = res.self.output_format
    /\ effects' = res.self.effects
    /\ effects_log' = res.self.effects_log
    /\ globals' = res.self.globals
    /\ sox_calls' = res.sox
    /\ log_out' = res.log

\* a call of an effect method: the trace records what it appended
DoEffect(op, args, res) ==
    /\ Len(trace) < MaxCalls
    /\ Do(op, args, res)
    /\ trace' = Append(trace,
            [op |-> op, ok |-> res.raised = "none",
             tokens |-> Suffix(res.self.effects, Len(effects)),
             logged |-> Suffix(res.self.effects_log, Len(effects_log))])
    /\ UNCHANGED globals_call

SetGlobals(D) ==
    \E a \in D :
        LET res == set_globals(Self, a[1], a[2], a[3], a[4], a[5])
        IN  /\ Do("set_globals", a, res)
            /\ globals_call' = IF res.raised = "none" THEN a ELSE globals_call
            /\ UNCHANGED trace

Build ==
    \E status \in BOOLEAN :
        /\ Do("build", <<PyBool(status)>>, build(Self, status))
        /\ UNCHANGED <<trace, globals_call>>

Compand(D) ==
    \E a \in D : DoEffect("compand", a, compand(Self, a[1], a[2], a[3], a[4]))

Convert(D) ==
    \E a \in D : DoEffect("convert", a, convert(Self, a[1], a[2], a[3]))

Fade(D) ==
    \E a \in D : DoEffect("fade", a, fade(Self, a[1], a[2], a[3]))

Gain ==
    \E a \in GainSamples : DoEffect("gain", a, gain(Self, a[1], a[2], a[3], a[4]))

Loudness ==
    \E a \in LoudnessSamples : DoEffect("loudness", a, loudness(Self, a[1], a[2]))

Norm ==
    \E a \in NormSamples : DoEffect("norm", a, norm(Self, a[1]))

Pad ==
    \E a \in PadSamples : DoEffect("pad", a, pad(Self, a[1], a[2]))

Rate ==
    \E a \in RateSamples : DoEffect("rate", a, rate(Self, a[1], a[2]))

SilenceWith(D) ==
    \E a \in D : DoEffect("silence", a, silence(Self, a[1], a[2], a[3], a[4]))

Silence == SilenceWith(SilenceSamples)

TrimWith(D) ==
    \E a \in D : DoEffect("trim", a, trim(Self, a[1], a[2]))

Trim == TrimWith(TrimSamples)

\* a call of any one of the Unimplemented methods: they share one body
NotImplemented ==
    /\ Do("unimplemented", <<>>, unimplemented(Self))
    /\ UNCHANGED <<trace, globals_call>>

Next ==
    \/ SetGlobals(SetGlobalsSamples)
    \/ Build
    \/ Compand(CompandSamples)
    \/ Convert(ConvertSamples)
    \/ Fade(FadeSamples)
    \/ Gain
    \/ Loudness
    \/ Norm
    \/ Pad
    \/ Rate
    \/ Silence
    \/ Trim
    \/ NotImplemented

Spec == Init /\ [][Next]_vars

\* set_globals with its arguments drawn exhaustively
NextGlobals ==
    \/ SetGlobals(SetGlobalsArgs)
    \/ Build

SpecGlobals == Init /\ [][NextGlobals]_vars

\* fade with its arguments drawn exhaustively
NextFade ==
    \/ Fade(FadeArgs)
    \/ Build

SpecFade == Init /\ [][NextFade]_vars

\* convert with its arguments drawn exhaustively
NextConvert ==
    \/ Convert(ConvertArgs)
    \/ Build

SpecConvert == Init /\ [][NextConvert]_vars

\* compand with every tf_points list of at most MaxPts points
NextCompand ==
    \/ Compand(CompandArgs)
    \/ Build

SpecCompand == Init /\ [][NextCompand]_vars

\* silence with its arguments drawn exhaustively
NextSilence ==
    \/ SilenceWith(SilenceArgs)
    \/ Build

SpecSilence == Init /\ [][NextSilence]_vars

\* trim with its arguments drawn exhaustively
NextTrim ==
    \/ TrimWith(TrimArgs)
    \/ Build

SpecTrim == Init /\ [][NextTrim]_vars

-----------------------------------------------------------------------------
(* Properties.                                                             *)

InvalidParameter == {"ValueError", "TypeError"}

\* the tokens the calls of a trace appended, in call order
RECURSIVE TokensOf(_)
TokensOf(tr) == IF tr = <<>> THEN <<>> ELSE tr[1].tokens \o TokensOf(Tail(tr))

\* the log entries the calls of a trace appended, in call order
RECURSIVE LoggedOf(_)
LoggedOf(tr) == IF tr = <<>> THEN <<>> ELSE tr[1].logged \o LoggedOf(Tail(tr))

\* C1: an effect call that fails validation leaves every field of the
\* builder as it was when the call started.
C1_FailedEffectCallMutatesNothing ==
    (call.op \in EffectOps /\ raised \in InvalidParameter) => Self = pre

\* C2: build hands the engine exactly globals ++ input_format ++
\* [input_filepath] ++ output_format ++ [output_filepath] ++ effects, read
\* from the builder as it is when build is called, the effect tokens being
\* those of the effect calls in the order the calls were made.
C2_BuildPassesAssembledArgs ==
    call.op = "build" =>
        /\ sox_calls =
              << pre.globals \o pre.input_format \o <<pre.input_filepath>>
                 \o pre.output_format \o <<pre.output_filepath>>
                 \o pre.effects >>
        /\ pre.effects = TokensOf(trace)

C2_Witness ==
    /\ call.op = "build"
    /\ Len(trace) = MaxCalls
    /\ \A i \in 1..Len(trace) : trace[i].tokens # <<>>
    /\ trace[1].op # trace[2].op
    /\ output_format # <<>>
    /\ Len(globals) > 2

\* C3: effects_log has an entry for a call exactly when the call appended
\* at least one token to effects, the entries are in call order, and so the
\* log is never longer than the number of effect calls and is shorter when
\* some call was a validated no-op.
C3_LogConsistentWithEffects ==
    /\ \A i \in 1..Len(trace) :
          /\ Len(trace[i].logged) <= 1
          /\ (trace[i].tokens # <<>>) <=> (Len(trace[i].logged) = 1)
    /\ effects_log = LoggedOf(trace)
    /\ effects = TokensOf(trace)
    /\ Len(effects_log) <= Len(trace)
    /\ (\E i \in 1..Len(trace) : trace[i].ok /\ trace[i].tokens = <<>>)
          => Len(effects_log) < Len(trace)

C3_Witness ==
    /\ Len(trace) = 2
    /\ trace[1].ok /\ trace[1].tokens = <<>>
    /\ trace[2].ok /\ trace[2].tokens # <<>>
    /\ Len(effects_log) = 1

\* C4: whatever the last call was, the effects it found are a prefix of the
\* effects it left.
C4_EffectsAppendOnly == IsPrefix(pre.effects, effects)

C4_Witness ==
    /\ call.op \in EffectOps
    /\ raised = "none"
    /\ pre.effects # <<>>
    /\ Len(effects) > Len(pre.effects)

\* the encoding of set_globals' arguments, as the specification words it
GlobalsEncoding(a) ==
    (IF a[1] = F THEN <<"-D">> ELSE <<>>)
    \o (IF a[2] = T THEN <<"-G">> ELSE <<>>)
    \o (IF a[3] = T THEN <<"--multi-threaded">> ELSE <<>>)
    \o (IF a[4] = T THEN <<"--replay-gain", "track">> ELSE <<>>)
    \o <<"-V" \o Format(a[5])>>

\* C5: globals is never empty, ends with the verbosity token, and is the
\* encoding of the arguments of the most recent set_globals call that
\* returned (the constructor's call with the defaults, <<"-D", "-V2">>, when
\* there was no other); a rejected set_globals call leaves it as it was.
C5_GlobalsReflectLastSetGlobals ==
    /\ globals # <<>>
    /\ globals[Len(globals)] = "-V" \o Format(globals_call[5])
    /\ globals = GlobalsEncoding(globals_call)
    /\ globals_call = SetGlobalsDefaults => globals = <<"-D", "-V2">>
    /\ (call.op = "set_globals" /\ raised \in InvalidParameter)
          => globals = pre.globals

C5_Witness ==
    /\ call.op = "set_globals"
    /\ raised \in InvalidParameter
    /\ globals_call # SetGlobalsDefaults
    /\ trace # <<>>

C7_BuildOutcome ==
    call.op = "build" =>
        /\ Len(sox_calls) = 1
        /\ raised \in {"none", "SoxError"}
        /\ (raised = "none") <=> (call.args[1] = T)
        /\ call.args[1] = T =>
              log_out = << <<"info", pre.output_filepath,
                             Join(" ", pre.effects_log)>> >>
        /\ call.args[1] = F => log_out = <<>>

C7_Witness ==
    /\ call.op = "build"
    /\ call.args[1] = F
    /\ raised = "SoxError"
    /\ Len(effects_log) = 2

\* C8: for a valid shape and lengths >= 0, fade appends to effects exactly
\* ["fade", shape, in] (when in > 0) then ["reverse", "fade", shape, out,
\* "reverse"] (when out > 0), and one "fade" log entry when those tokens are
\* not empty; with both lengths 0 the builder is left exactly as it was.
C8_FadeEncoding ==
    call.op = "fade" =>
        LET i == call.args[1]
            o == call.args[2]
            sh == call.args[3]
            valid == /\ sh.t = "str" /\ sh.s \in {"q", "h", "t", "l", "p"}
                     /\ i.t \in {"int", "float"} /\ Tenths(i) >= 0
                     /\ o.t \in {"int", "float"} /\ Tenths(o) >= 0
            fin == IF Tenths(i) > 0 THEN <<"fade", sh.s, Format(i)>> ELSE <<>>
            fout == IF Tenths(o) > 0
                    THEN <<"reverse", "fade", sh.s, Format(o), "reverse">>
                    ELSE <<>>
        IN  valid =>
                /\ raised = "none"
                /\ effects = pre.effects \o fin \o fout
                /\ effects_log = pre.effects_log
                      \o (IF fin \o fout # <<>> THEN <<"fade">> ELSE <<>>)
                /\ (Tenths(i) = 0 /\ Tenths(o) = 0) => Self = pre

C8_Witness ==
    /\ call.op = "fade"
    /\ raised = "none"
    /\ Len(trace) = 2
    /\ trace[1].op = "fade" /\ trace[1].ok /\ trace[1].tokens = <<>>
    /\ Len(effects) = 8
    /\ effects_log = <<"fade">>

\* C9: a convert call that returns appends to output_format exactly
\* ["-b", bitdepth] (when given) then ["-c", channels] (when given); what it
\* does to effects and effects_log is what rate(samplerate) with the default
\* quality does when samplerate is given, and nothing otherwise; with all
\* three absent no field of the builder changes.
C9_ConvertEncoding ==
    (call.op = "convert" /\ raised = "none") =>
        LET sr == call.args[1]
            ch == call.args[2]
            bd == call.args[3]
            r == rate(pre, sr, rate_default_quality)
        IN  /\ output_format = pre.output_format
                  \o (IF bd # PyNone THEN <<"-b", Format(bd)>> ELSE <<>>)
                  \o (IF ch # PyNone THEN <<"-c", Format(ch)>> ELSE <<>>)
            /\ IF sr # PyNone
               THEN /\ r.raised = "none"
                    /\ effects = r.self.effects
                    /\ effects_log = r.self.effects_log
                    /\ effects = pre.effects \o <<"rate", "-h", Format(sr)>>
                    /\ effects_log = pre.effects_log \o <<"rate">>
               ELSE /\ effects = pre.effects
                    /\ effects_log = pre.effects_log
            /\ (sr = PyNone /\ ch = PyNone /\ bd = PyNone) => Self = pre

C9_Witness ==
    /\ call.op = "convert"
    /\ raised = "none"
    /\ \A k \in 1..3 : call.args[k] # PyNone
    /\ pre.output_format # <<>>
    /\ pre.effects # <<>>

\* the permutations of 1..n
Perms(n) == {f \in [1..n -> 1..n] : \A i, j \in 1..n : i # j => f[i] # f[j]}

\* "x1,y1,x2,y2,..." of a sequence of points
RECURSIVE PointsText(_)
PointsText(q) ==
    IF q = <<>> THEN ""
    ELSE Format(q[1].items[1]) \o "," \o Format(q[1].items[2])
         \o (IF Len(q) > 1 THEN "," \o PointsText(Tail(q)) ELSE "")

\* C10: a compand call that returns appends a third token that lists the
\* points in strictly ascending order of x, so every permutation of the same
\* tf_points appends the same tokens; a tf_points with a duplicate x is
\* rejected and effects and effects_log stay as they were.
C10_CompandSortsPoints ==
    call.op = "compand" =>
        LET a == call.args
            pts == a[4].items
            n == Len(pts)
            X(p) == Tenths(p.items[1])
            dup == \E i, j \in 1..n : i # j /\ X(pts[i]) = X(pts[j])
            knee == IF a[3] = PyNone THEN "" ELSE Format(a[3]) \o ":"
        IN  /\ dup => /\ raised = "ValueError"
                      /\ effects = pre.effects
                      /\ effects_log = pre.effects_log
            /\ raised = "none" =>
                  /\ ~dup
                  /\ \E f \in Perms(n) :
                        /\ \A i \in 1..(n - 1) : X(pts[f[i]]) < X(pts[f[i + 1]])
                        /\ effects = pre.effects \o
                              <<"compand", Format(a[1]) \o "," \o Format(a[2]),
                                knee \o PointsText([i \in 1..n |-> pts[f[i]]])>>
                  /\ \A f \in Perms(n) :
                        compand(pre, a[1], a[2], a[3],
                                PyList([i \in 1..n |-> pts[f[i]]])).self.effects
                            = effects
                  /\ effects_log = pre.effects_log \o <<"compand">>

C10_Witness ==
    /\ call.op = "compand"
    /\ raised = "none"
    /\ Len(call.args[4].items) = 3
    /\ \A i \in 1..2 : Tenths(call.args[4].items[i].items[1])
                        > Tenths(call.args[4].items[i + 1].items[1])
    /\ pre.effects # <<>>

\* the number of elements of q equal to x
Count(q, x) == Cardinality({i \in 1..Len(q) : q[i] = x})

\* C11: a valid silence call appends "reverse" first when location is -1,
\* then "silence" (with "-l" when buffer_around_silence), then "1",
\* min_silence_duration, "<threshold>%", then "-1", min_silence_duration,
\* "<threshold>%" when location is 0, then "reverse" last when location is
\* -1: "reverse" occurs either not at all or as the first and the last of
\* the appended tokens; the threshold is accepted exactly when
\* 0 <= threshold < 100.
C11_SilenceEncoding ==
    call.op = "silence" =>
        LET loc == call.args[1]
            th == call.args[2]
            d == call.args[3]
            b == call.args[4]
            th_ok == th.t \in {"int", "float"}
                     /\ Tenths(th) >= 0 /\ Tenths(th) < 1000
            rest_ok == /\ loc.t = "int" /\ loc.v \in {-1, 0, 1}
                       /\ d.t \in {"int", "float"} /\ Tenths(d) > 0
                       /\ b \in {T, F}
            triple(n) == <<n, Format(d), Format(th) \o "%">>
            rev == IF loc.v = -1 THEN <<"reverse">> ELSE <<>>
            expected ==
                rev
                \o (IF b = T THEN <<"silence", "-l">> ELSE <<"silence">>)
                \o triple("1")
                \o (IF loc.v = 0 THEN triple("-1") ELSE <<>>)
                \o rev
            added == Suffix(effects, Len(pre.effects))
        IN  /\ rest_ok => ((raised = "none") <=> th_ok)
            /\ raised # "none" => raised \in InvalidParameter /\ Self = pre
            /\ raised = "none" =>
                  /\ effects = pre.effects \o expected
                  /\ effects_log = pre.effects_log \o <<"silence">>
                  /\ IF loc.v = -1
                     THEN /\ Count(added, "reverse") = 2
                          /\ added[1] = "reverse"
                          /\ added[Len(added)] = "reverse"
                     ELSE Count(added, "reverse") = 0

C11_Witness ==
    /\ call = [op |-> "silence", args |-> <<PyInt(-1), PyInt(0), PyFloat(1), T>>]
    /\ raised = "none"
    /\ pre.effects # <<>>
    /\ Suffix(effects, Len(pre.effects))
          = <<"reverse", "silence", "-l", "1", "0.1", "0%", "reverse">>

\* C12: trim is rejected whenever start_time >= end_time or either time is
\* negative, and leaves the builder as it was; otherwise it appends exactly
\* "trim", start_time and the duration end_time - start_time (not the end
\* time), and one "trim" log entry.
C12_TrimEncoding ==
    call.op = "trim" =>
        LET st == call.args[1]
            en == call.args[2]
            bad == Tenths(st) >= Tenths(en) \/ Tenths(st) < 0 \/ Tenths(en) < 0
            duration ==
                IF st.t = "int" /\ en.t = "int" THEN IntStr(en.v - st.v)
                ELSE FloatStr(Tenths(en) - Tenths(st))
        IN  IF bad
            THEN raised \in InvalidParameter /\ Self = pre
            ELSE /\ raised = "none"
                 /\ effects = pre.effects \o <<"trim", Format(st), duration>>
                 /\ effects_log = pre.effects_log \o <<"trim">>

C12_Witness ==
    /\ call = [op |-> "trim", args |-> <<PyFloat(10), PyFloat(25)>>]
    /\ raised = "none"
    /\ effects = <<"trim", "0", "3", "trim", "1.0", "1.5">>
    /\ effects_log = <<"trim", "trim">>

\* One call, seen as a step: which fields it may change.
C13_Step ==
    /\ UNCHANGED <<input_filepath, output_filepath, input_format>>
    /\ call'.op = "set_globals" =>
            UNCHANGED <<output_format, effects, effects_log>>
    /\ call'.op = "build" => UNCHANGED fields
    /\ (call.op = "build" /\ call'.op = "build") => sox_calls' = sox_calls
    /\ call'.op # "convert" => UNCHANGED output_format
    /\ call'.op \notin {"convert", "set_globals"} => UNCHANGED globals

\* C13: every call changes only its own token group. set_globals changes
\* only globals; build, successful or failing, changes no field, so two
\* builds in a row hand core.sox the same arguments; every effect method
\* other than convert leaves globals, input_format, output_format and both
\* paths alone; no call changes input_format, which stays empty, or the paths.
C13_FrameEffects ==
    /\ [](input_format = <<>>)
    /\ [][C13_Step]_vars

C13_Witness ==
    /\ call.op = "build"
    /\ raised = "SoxError"
    /\ Self = pre
    /\ effects # <<>>
    /\ output_format # <<>>
    /\ globals # <<"-D", "-V2">>
    /\ sox_calls = <<build_args(Self)>>

=============================================================================
